---- MODULE Spec2Model ----
(***************************************************************************)
(* The three driving environments of driving_envs/envs/merging_env.py      *)
(* (TurningEnv = variant "A", MergingEnv = "B", MergingEnv2 = "C") as one  *)
(* state machine: the episode wrapper's reset/step/render over a World     *)
(* with two cars and the variant's buildings.                              *)
(*                                                                         *)
(* Units.  Lengths are centimetres, velocities cm/s, control inputs the    *)
(* numbers handed to set_control (m/s^2), rewards 1/10000 of a reward      *)
(* point (so the collision penalty 200 is 2000000).  All control inputs    *)
(* the model draws keep every quantity on this lattice, so the integer     *)
(* divisions below are exact.                                              *)
(*                                                                         *)
(* driving_envs.world / agents / geometry are not part of the sources at   *)
(* hand: WorldReset, WorldAdd, WorldTick, TickCar, set_control,            *)
(* collidesWith and the Car/Building geometry are written from the         *)
(* specification's description of them.                                    *)
(***************************************************************************)
EXTENDS Integers, Sequences, FiniteSets, TLC

VARIABLES
    variant,      \* which class the environment is: "A", "B" or "C"
    time_limit,   \* self.time_limit (B, C); Unset in A, which has none
    step_num,     \* self.step_num; Unset until reset() creates it
    cars,         \* self.cars: name -> Car
    buildings,    \* self.buildings
    world,        \* self.world: its static and dynamic agents
    ret,          \* outcome of the last call made on the environment
    calls,        \* observation: step() calls made since the last reset()
    ticks,        \* observation: World.tick() calls made since the last reset()
    terminated,   \* observation: a step() since the last reset() returned done=true
    failed,       \* observation: a step() since the last reset() raised
    given,        \* observation: the action handed to the last step() call
    reset_from,   \* observation: what the reset() just made found (EpisodeState)
    episode,      \* observation (SpecReplay): 0 before the first reset(), 1 in
                  \* the episode after it, 2 in every later episode
    log           \* observation (SpecReplay): the step() calls of episode 1
                  \* and what each of them gave back

vars == <<variant, time_limit, step_num, cars, buildings, world, ret,
          calls, ticks, terminated, failed, given, reset_from, episode, log>>

---------------------------------------------------------------------------
(* Program constants *)

DefaultHeight == 120       \* height: int = 120
TimeLimitB == 200          \* MergingEnv time_limit default
TimeLimitC == 60           \* MergingEnv2 time_limit default
CollisionPenalty == 200    \* reward[...] -= 200
Unset == -1                \* an attribute __init__ does not create

(* Bounds of the model *)

ShortLimit == 3            \* the time_limit the environment is built with under Spec
MaxSteps == 4              \* step() calls explored per episode under Spec

Variants == {"A", "B", "C"}
CarNames == {"H", "R"}
RewardUnit == 100 * 100    \* reward lattice: 1 reward point
Height == DefaultHeight * 100
Penalty == CollisionPenalty * RewardUnit

\* dt is 1/DtDen seconds: 0.04 in TurningEnv and MergingEnv, 0.1 in MergingEnv2
DtDen(v) == IF v = "C" THEN 10 ELSE 25

Abs(n) == IF n < 0 THEN -n ELSE n
Max(a, b) == IF a >= b THEN a ELSE b

---------------------------------------------------------------------------
(* Agents and geometry (driving_envs.agents, driving_envs.geometry) *)

\* Car(Point(x, y), heading): a 4 m x 2 m rectangle, at rest, zero controls
CarHalfLength == 200
CarHalfWidth == 100

Car(x, y) ==
    [x |-> x, y |-> y, heading |-> 90, vx |-> 0, vy |-> 0,
     inputSteering |-> 0, inputAcceleration |-> 0]

\* Building(Point(cx, cy), Point(sx, sy), color): centre and full size
Building(cx, cy, sx, sy) == [cx |-> cx, cy |-> cy, hx |-> sx \div 2, hy |-> sy \div 2]

\* car.velocity = Point(vx, vy)
SetVelocity(c, vx, vy) == [c EXCEPT !.vx = vx, !.vy = vy]

\* agent.set_control(steer, accel): stores the two inputs for the next tick
SetControl(c, steer, accel) ==
    [c EXCEPT !.inputSteering = steer, !.inputAcceleration = accel]

\* Strict overlap of two axis-aligned boxes given by centres and half extents
Overlap(ax, ay, ahx, ahy, bx, by, bhx, bhy) ==
    /\ Abs(ax - bx) < ahx + bhx
    /\ Abs(ay - by) < ahy + bhy

\* car.collidesWith(other car): the cars head along y
CarCollidesCar(a, b) ==
    Overlap(a.x, a.y, CarHalfWidth, CarHalfLength, b.x, b.y, CarHalfWidth, CarHalfLength)

\* car.collidesWith(building)
CarCollidesBuilding(c, b) ==
    Overlap(c.x, c.y, CarHalfWidth, CarHalfLength, b.cx, b.cy, b.hx, b.hy)

\* One integration step of a car over dt: the controls change the velocity,
\* the velocity moves the car (zero controls: position + velocity * dt)
TickCar(c, den) ==
    LET vx2 == c.vx + (c.inputSteering * 100) \div den
        vy2 == c.vy + (c.inputAcceleration * 100) \div den
    IN  [c EXCEPT !.vx = vx2, !.vy = vy2,
                  !.x = c.x + vx2 \div den, !.y = c.y + vy2 \div den]

---------------------------------------------------------------------------
(* World (driving_envs.world) *)

EmptyWorld == [static_agents |-> <<>>, dynamic_agents |-> <<>>]

\* world.reset(): forgets every agent
WorldReset(w) == [w EXCEPT !.static_agents = <<>>, !.dynamic_agents = <<>>]

\* world.add(building), in list order
WorldAddBuildings(w, bs) == [w EXCEPT !.static_agents = w.static_agents \o bs]

\* world.add(car): appended to the dynamic agents
WorldAddCar(w, name) == [w EXCEPT !.dynamic_agents = Append(w.dynamic_agents, name)]

\* world.render(): draws the agents on the world's surface; the surface is no
\* part of the simulation state, which the call leaves as it is
WorldRender(w) == w

\* world.tick(): every dynamic agent integrates once, with its stored controls
WorldTick(cs, dyn, den) ==
    [n \in DOMAIN cs |->
        IF \E i \in 1..Len(dyn) : dyn[i] = n THEN TickCar(cs[n], den) ELSE cs[n]]

\* world.state: the dynamic agents' fields, in insertion order
WorldState(cs, dyn) ==
    [i \in 1..Len(dyn) |->
        <<cs[dyn[i]].x, cs[dyn[i]].y, cs[dyn[i]].heading, cs[dyn[i]].vx, cs[dyn[i]].vy>>]

---------------------------------------------------------------------------
(* Rewards: _get_car_reward of each class, in reward-lattice units *)

\* np.square(car.inputAcceleration)
ControlCost(c) == c.inputAcceleration * c.inputAcceleration

\* TurningEnv._get_vel_reward, in cm/s
GetVelRewardA(c) ==
    IF c.y <= 8000 THEN c.vy
    ELSE IF c.y >= 8600 THEN -c.vy
    ELSE -c.vx

\* TurningEnv._get_car_reward: 0.1 * vel_rew - 0.0 * control_cost
GetCarRewardA(c) == 10 * GetVelRewardA(c) - 0 * ControlCost(c)

\* ctrl_cost_weight: float = 0.0, the constructor default of MergingEnv and MergingEnv2
CtrlCostWeight == 0

\* MergingEnv._get_car_reward:
\*   -0.008 * (height - y) - 0.01 * |x - 58.5| - ctrl_cost_weight * control_cost
GetCarRewardB(c) ==
    (-8 * (Height - c.y)) \div 10 - Abs(c.x - 5850) - CtrlCostWeight * ControlCost(c)

\* scipy.special.expit at (y - 60) / 7, in thousandths, read at the whole
\* part of its argument
ExpitTable ==
    <<1, 2, 7, 18, 47, 119, 269, 500, 731, 881, 953, 982, 993, 998, 999>>

Expit(num, den) ==
    LET z == num \div den
    IN  IF z <= -7 THEN ExpitTable[1]
        ELSE IF z >= 7 THEN ExpitTable[15]
        ELSE ExpitTable[z + 8]

\* MergingEnv2._get_car_reward:
\*   .1 * velocity.y - expit((y - 60)/7) * max(x - 58.5, 0) - ctrl_cost_weight * control_cost
GetCarRewardC(c) ==
    10 * c.vy - (Expit(c.y - 6000, 700) * Max(c.x - 5850, 0)) \div 10
        - CtrlCostWeight * ControlCost(c)

\* The terminal bonus 200 * ((car.y / height) ** 4) of MergingEnv.step:
\* the ratio in thousandths, its square n in millionths, and n * n / 500000
\* computed in two halves so that it stays within 32 bits.
TerminalBonus(y) ==
    LET q == (y * 1000) \div Height
        n == q * q
        a == n \div 1000
        b == n % 1000
    IN  2 * a * a + (4 * a * b + (b * b) \div 500) \div 1000

---------------------------------------------------------------------------
(* The termination and reward logic of step(), on the post-tick cars *)

\* self.cars["R"].collidesWith(self.cars["H"])
CarsCollide(cs) == CarCollidesCar(cs["R"], cs["H"])

\* the buildings of the list the car overlaps: one penalty each
HitBuildings(c, bs) == {i \in 1..Len(bs) : CarCollidesBuilding(c, bs[i])}

HitsABuilding(c, bs) == HitBuildings(c, bs) # {}

\* TurningEnv.step: car_name == "R" and car.y >= self.height or car.y <= 0 or car.x <= 0
OutOfBoundsA(name, c) == (name = "R" /\ c.y >= Height) \/ c.y <= 0 \/ c.x <= 0

\* Mutant: both bounds tests apply to car "R" alone
OutOfBoundsB_ROnly(name, c) == name = "R" /\ (c.y >= Height \/ c.y <= 0)

\* MergingEnv.step: car_name == "R" and car.y >= self.height or car.y <= 0
OutOfBoundsB(name, c) == (name = "R" /\ c.y >= Height) \/ c.y <= 0

\* Mutant: both bounds tests apply to car "R" alone
OutOfBoundsC_ROnly(name, c) == name = "R" /\ (c.y >= Height \/ c.y <= 0)

\* MergingEnv2.step: car_name == "R" and car.y >= self.height or car.y <= 0
OutOfBoundsC(name, c) == (name = "R" /\ c.y >= Height) \/ c.y <= 0

\* TurningEnv.step, after the tick; collide is the cars' collidesWith
DoneA(cs, bs, collide) ==
    \/ collide
    \/ \E n \in CarNames : HitsABuilding(cs[n], bs) \/ OutOfBoundsA(n, cs[n])

\* Mutant: a building costs the car that hits it nothing
RewardA_NoBuildingPenalty(cs, bs, collide) ==
    [n \in CarNames |->
        GetCarRewardA(cs[n]) - (IF collide THEN Penalty ELSE 0)]

RewardA(cs, bs, collide) ==
    [n \in CarNames |->
        GetCarRewardA(cs[n])
            - (IF collide THEN Penalty ELSE 0)
            - Penalty * Cardinality(HitBuildings(cs[n], bs))]

\* Mutant: the time limit ends the episode only at the step that reaches it
DoneB_LimitOnce(cs, bs, sn, tl, collide) ==
    \/ collide
    \/ \E n \in CarNames : HitsABuilding(cs[n], bs) \/ OutOfBoundsB(n, cs[n])
    \/ sn = tl

\* Mutant: the time limit ends the episode one step late
DoneB_LateLimit(cs, bs, sn, tl, collide) ==
    \/ collide
    \/ \E n \in CarNames : HitsABuilding(cs[n], bs) \/ OutOfBoundsB(n, cs[n])
    \/ sn > tl

\* MergingEnv.step, after the tick
DoneB(cs, bs, sn, tl, collide) ==
    \/ collide
    \/ \E n \in CarNames : HitsABuilding(cs[n], bs) \/ OutOfBoundsB(n, cs[n])
    \/ sn >= tl

\* Mutant: a building hit by either car is charged to both agents
RewardB_BuildingPenaltyShared(cs, bs, done, collide) ==
    [n \in CarNames |->
        GetCarRewardB(cs[n])
            - (IF collide THEN Penalty ELSE 0)
            - Penalty * (Cardinality(HitBuildings(cs["H"], bs))
                            + Cardinality(HitBuildings(cs["R"], bs)))
            + (IF done THEN TerminalBonus(cs[n].y) ELSE 0)]

\* Mutant: the collision of the two cars is charged to car "R" alone
RewardB_PenaltyForR(cs, bs, done, collide) ==
    [n \in CarNames |->
        GetCarRewardB(cs[n])
            - (IF collide /\ n = "R" THEN Penalty ELSE 0)
            - Penalty * Cardinality(HitBuildings(cs[n], bs))
            + (IF done THEN TerminalBonus(cs[n].y) ELSE 0)]

\* Mutant: an episode that ends in a collision of the cars gets no bonus
RewardB_NoBonusOnCrash(cs, bs, done, collide) ==
    [n \in CarNames |->
        GetCarRewardB(cs[n])
            - (IF collide THEN Penalty ELSE 0)
            - Penalty * Cardinality(HitBuildings(cs[n], bs))
            + (IF done /\ ~collide THEN TerminalBonus(cs[n].y) ELSE 0)]

RewardB(cs, bs, done, collide) ==
    [n \in CarNames |->
        GetCarRewardB(cs[n])
            - (IF collide THEN Penalty ELSE 0)
            - Penalty * Cardinality(HitBuildings(cs[n], bs))
            + (IF done THEN TerminalBonus(cs[n].y) ELSE 0)]

\* MergingEnv2.step, after the tick: the out-of-bounds test raises from inside
\* the loop over the cars, before the time limit is looked at
RaisesC(cs) == \E n \in CarNames : OutOfBoundsC(n, cs[n])

\* Mutant: the time limit ends the episode one step late
DoneC_LateLimit(cs, bs, sn, tl, collide) ==
    \/ collide
    \/ \E n \in CarNames : HitsABuilding(cs[n], bs)
    \/ sn > tl

\* Mutant: a car overlapping a building does not end the episode
DoneC_IgnoreBuildings(cs, bs, sn, tl, collide) ==
    \/ collide
    \/ sn >= tl

DoneC(cs, bs, sn, tl, collide) ==
    \/ collide
    \/ \E n \in CarNames : HitsABuilding(cs[n], bs)
    \/ sn >= tl

RewardC(cs) == [n \in CarNames |-> GetCarRewardC(cs[n])]

---------------------------------------------------------------------------
(* Outcomes of calls *)

NoReward == [n \in CarNames |-> 0]

Returned(op, done, reward, mode, value) ==
    [op |-> op, outcome |-> "returned", error |-> "", done |-> done,
     reward |-> reward, mode |-> mode, value |-> value]

Raised(op, error, mode) ==
    [op |-> op, outcome |-> "raised", error |-> error, done |-> FALSE,
     reward |-> NoReward, mode |-> mode, value |-> "none"]

\* Mutant: the offset into the action is never advanced
SetControls_NoOffset(cs, dyn, action) ==
    [n \in DOMAIN cs |->
        IF \E i \in 1..Len(dyn) : dyn[i] = n
        THEN SetControl(cs[n], action[1], action[2])
        ELSE cs[n]]

\* the loop of step(): agent i of world.dynamic_agents gets action[2i-2 : 2i]
SetControls(cs, dyn, action) ==
    [n \in DOMAIN cs |->
        IF \E i \in 1..Len(dyn) : dyn[i] = n
        THEN LET i == CHOOSE j \in 1..Len(dyn) : dyn[j] = n
             IN  SetControl(cs[n], action[2 * i - 1], action[2 * i])
        ELSE cs[n]]

\* The control vectors the model draws: <<H steer, H accel, R steer, R accel>>
Actions ==
    { <<0, 0, 0, 0>>,
      <<250, 0, 0, 0>>, <<0, 0, 250, 0>>,
      <<0, 25000, 0, 0>>, <<0, 0, 0, 25000>>,
      <<0, -25000, 0, 0>>, <<0, 0, 0, 250>> }

ZeroAction == <<0, 0, 0, 0>>

Modes == {"human", "rgb_array", "orbit"}

---------------------------------------------------------------------------
(* reset() of each class *)

BuildingsA ==
    << Building(2850, 4000, 5700, 8000),
       Building(2850, 10300, 5700, 3400),
       Building(9150, 6000, 5700, 12000) >>

BuildingsB ==
    << Building(2850, 6000, 5700, 12000),
       Building(9150, 6000, 5700, 12000) >>

BuildingsC ==
    << Building(2850, 6000, 5700, 12000),
       Building(9150, 6000, 5700, 12000),
       Building(6200, 9000, 200, 6000) >>

CarsA ==
    [n \in CarNames |->
        IF n = "H" THEN SetVelocity(Car(5850, 1000), 0, 700)
        ELSE SetVelocity(Car(5850, 500), 0, 700)]

CarsB ==
    [n \in CarNames |->
        IF n = "H" THEN SetVelocity(Car(5850, 500), 0, 1000)
        ELSE SetVelocity(Car(6150, 500), 0, 1000)]

CarsC ==
    [n \in CarNames |->
        IF n = "H" THEN SetVelocity(Car(5850, 500), 0, 1000)
        ELSE SetVelocity(Car(6150, 500), 0, 1000)]

\* Mutant: reset() adds the agents without calling world.reset() first
ResetWorld_KeepsAgents(w, bs) ==
    WorldAddCar(WorldAddCar(WorldAddBuildings(w, bs), "H"), "R")

\* world.reset(); the buildings are added; then the cars, "H" before "R"
ResetWorld(w, bs) ==
    WorldAddCar(WorldAddCar(WorldAddBuildings(WorldReset(w), bs), "H"), "R")

ResetObservations ==
    /\ calls' = 0
    /\ ticks' = 0
    /\ terminated' = FALSE
    /\ failed' = FALSE

\* TurningEnv.reset
TurningReset ==
    /\ variant = "A"
    /\ world' = ResetWorld(world, BuildingsA)
    /\ buildings' = BuildingsA
    /\ cars' = CarsA
    /\ ret' = Returned("reset", FALSE, NoReward, "", "state")
    /\ ResetObservations
    /\ UNCHANGED <<variant, time_limit, step_num>>

\* Mutant: reset() creates the step counter when there is none and
\* otherwise leaves it as the last episode left it
MergingReset_KeepsCounter ==
    /\ variant = "B"
    /\ world' = ResetWorld(world, BuildingsB)
    /\ buildings' = BuildingsB
    /\ cars' = CarsB
    /\ step_num' = IF step_num = Unset THEN 0 ELSE step_num
    /\ ret' = Returned("reset", FALSE, NoReward, "", "state")
    /\ ResetObservations
    /\ UNCHANGED <<variant, time_limit>>

\* MergingEnv.reset
MergingReset ==
    /\ variant = "B"
    /\ world' = ResetWorld(world, BuildingsB)
    /\ buildings' = BuildingsB
    /\ cars' = CarsB
    /\ step_num' = 0
    /\ ret' = Returned("reset", FALSE, NoReward, "", "state")
    /\ ResetObservations
    /\ UNCHANGED <<variant, time_limit>>

\* MergingEnv2.reset
Merging2Reset ==
    /\ variant = "C"
    /\ world' = ResetWorld(world, BuildingsC)
    /\ buildings' = BuildingsC
    /\ cars' = CarsC
    /\ step_num' = 0
    /\ ret' = Returned("reset", FALSE, NoReward, "", "state")
    /\ ResetObservations
    /\ UNCHANGED <<variant, time_limit>>

---------------------------------------------------------------------------
(* step(action) of each class *)

\* TurningEnv.step.  Before the first reset() the world has no agents and
\* self.cars is empty: the world ticks, then self.cars["R"] raises KeyError.
TurningStep(action) ==
    /\ variant = "A"
    /\ calls' = calls + 1
    /\ ticks' = ticks + 1
    /\ IF "R" \notin DOMAIN cars
       THEN /\ ret' = Raised("step", "KeyError: 'R'", "")
            /\ failed' = TRUE
            /\ UNCHANGED <<cars, terminated>>
       ELSE LET post == WorldTick(SetControls(cars, world.dynamic_agents, action),
                                  world.dynamic_agents, DtDen(variant))
                collide == CarsCollide(post)
                done == DoneA(post, buildings, collide)
            IN  /\ cars' = post
                /\ ret' = Returned("step", done, RewardA(post, buildings, collide), "", "state")
                /\ terminated' = (terminated \/ done)
                /\ UNCHANGED failed
    /\ UNCHANGED <<variant, time_limit, step_num, buildings, world>>

\* MergingEnv.step.  Before the first reset() self.step_num does not exist:
\* self.step_num += 1 raises AttributeError and nothing else runs.
MergingStep(action) ==
    /\ variant = "B"
    /\ calls' = calls + 1
    /\ IF step_num = Unset
       THEN /\ ret' = Raised("step", "AttributeError: step_num", "")
            /\ failed' = TRUE
            /\ UNCHANGED <<cars, step_num, ticks, terminated>>
       ELSE LET sn == step_num + 1
                post == WorldTick(SetControls(cars, world.dynamic_agents, action),
                                  world.dynamic_agents, DtDen(variant))
                collide == CarsCollide(post)
                done == DoneB(post, buildings, sn, time_limit, collide)
            IN  /\ step_num' = sn
                /\ ticks' = ticks + 1
                /\ cars' = post
                /\ ret' = Returned("step", done, RewardB(post, buildings, done, collide),
                                   "", "state")
                /\ terminated' = (terminated \/ done)
                /\ UNCHANGED failed
    /\ UNCHANGED <<variant, time_limit, buildings, world>>

\* Mutant: the counter advances at the end of step(), which the
\* out-of-bounds error does not reach
Merging2Step_CountsAtEnd(action) ==
    /\ variant = "C"
    /\ calls' = calls + 1
    /\ IF step_num = Unset
       THEN /\ ret' = Raised("step", "AttributeError: step_num", "")
            /\ failed' = TRUE
            /\ UNCHANGED <<cars, step_num, ticks, terminated>>
       ELSE LET sn == step_num + 1
                post == WorldTick(SetControls(cars, world.dynamic_agents, action),
                                  world.dynamic_agents, DtDen(variant))
                collide == CarsCollide(post)
                done == DoneC(post, buildings, sn, time_limit, collide)
            IN  /\ ticks' = ticks + 1
                /\ cars' = post
                /\ IF RaisesC(post)
                   THEN /\ ret' = Raised("step", "ValueError: Car went out of bounds!", "")
                        /\ failed' = TRUE
                        /\ UNCHANGED <<step_num, terminated>>
                   ELSE /\ step_num' = sn
                        /\ ret' = Returned("step", done, RewardC(post), "", "state")
                        /\ terminated' = (terminated \/ done)
                        /\ UNCHANGED failed
    /\ UNCHANGED <<variant, time_limit, buildings, world>>

\* MergingEnv2.step: as MergingEnv.step up to the tick; a car out of bounds
\* raises ValueError, after the counter and the world have advanced.
Merging2Step(action) ==
    /\ variant = "C"
    /\ calls' = calls + 1
    /\ IF step_num = Unset
       THEN /\ ret' = Raised("step", "AttributeError: step_num", "")
            /\ failed' = TRUE
            /\ UNCHANGED <<cars, step_num, ticks, terminated>>
       ELSE LET sn == step_num + 1
                post == WorldTick(SetControls(cars, world.dynamic_agents, action),
                                  world.dynamic_agents, DtDen(variant))
                collide == CarsCollide(post)
                done == DoneC(post, buildings, sn, time_limit, collide)
            IN  /\ step_num' = sn
                /\ ticks' = ticks + 1
                /\ cars' = post
                /\ IF RaisesC(post)
                   THEN /\ ret' = Raised("step", "ValueError: Car went out of bounds!", "")
                        /\ failed' = TRUE
                        /\ UNCHANGED terminated
                   ELSE /\ ret' = Returned("step", done, RewardC(post), "", "state")
                        /\ terminated' = (terminated \/ done)
                        /\ UNCHANGED failed
    /\ UNCHANGED <<variant, time_limit, buildings, world>>

---------------------------------------------------------------------------
(* render(mode) of each class *)

UnsupportedMode(mode) == "NotImplementedError: Unsupported mode: " \o mode

\* TurningEnv.render
TurningRender(mode) ==
    /\ variant = "A"
    /\ IF mode # "human"
       THEN /\ ret' = Raised("render", UnsupportedMode(mode), mode)
            /\ UNCHANGED world
       ELSE /\ world' = WorldRender(world)
            /\ ret' = Returned("render", FALSE, NoReward, mode, "none")
    /\ UNCHANGED <<variant, time_limit, step_num, cars, buildings,
                   calls, ticks, terminated, failed>>

\* MergingEnv.render
MergingRender(mode) ==
    /\ variant = "B"
    /\ IF mode # "human"
       THEN /\ ret' = Raised("render", UnsupportedMode(mode), mode)
            /\ UNCHANGED world
       ELSE /\ world' = WorldRender(world)
            /\ ret' = Returned("render", FALSE, NoReward, mode, "none")
    /\ UNCHANGED <<variant, time_limit, step_num, cars, buildings,
                   calls, ticks, terminated, failed>>

\* MergingEnv2.render: draws first, whatever the mode; "rgb_array" returns
\* the image, every other mode returns None
Merging2Render(mode) ==
    /\ variant = "C"
    /\ world' = WorldRender(world)
    /\ ret' = Returned("render", FALSE, NoReward, mode,
                       IF mode = "rgb_array" THEN "image" ELSE "none")
    /\ UNCHANGED <<variant, time_limit, step_num, cars, buildings,
                   calls, ticks, terminated, failed>>

---------------------------------------------------------------------------
(* Specifications *)

\* The environment as constructed: no cars, no buildings, an empty world and,
\* in MergingEnv and MergingEnv2, no step counter yet
Constructed(v, tl) ==
    /\ variant = v
    /\ time_limit = tl
    /\ step_num = Unset
    /\ cars = << >>
    /\ buildings = << >>
    /\ world = EmptyWorld
    /\ ret = Returned("init", FALSE, NoReward, "", "none")
    /\ calls = 0
    /\ ticks = 0
    /\ terminated = FALSE
    /\ failed = FALSE
    /\ given = << >>
    /\ reset_from = ""
    /\ episode = 0
    /\ log = << >>

\* Spec: each class built with a short time limit, driven by any caller
Init == \E v \in Variants : Constructed(v, IF v = "A" THEN Unset ELSE ShortLimit)

Reset == TurningReset \/ MergingReset \/ Merging2Reset

Step(action) == TurningStep(action) \/ MergingStep(action) \/ Merging2Step(action)

Render(mode) == TurningRender(mode) \/ MergingRender(mode) \/ Merging2Render(mode)

\* What a caller about to call reset() has seen of the environment
EpisodeState ==
    IF "R" \notin DOMAIN cars THEN (IF failed THEN "misused" ELSE "constructed")
    ELSE IF failed THEN "failed"
    ELSE IF terminated THEN "terminated"
    ELSE IF calls = 0 THEN "reset"
    ELSE "running"

\* The observations of a call: they record it and change nothing else
ObserveReset ==
    /\ given' = << >>
    /\ reset_from' = EpisodeState

ObserveStep(action) ==
    /\ given' = action
    /\ reset_from' = ""

ObserveRender ==
    /\ reset_from' = ""
    /\ UNCHANGED given

Next ==
    \/ Reset /\ ObserveReset /\ UNCHANGED <<episode, log>>
    \/ \E action \in Actions :
          calls < MaxSteps /\ Step(action) /\ ObserveStep(action) /\ UNCHANGED <<episode, log>>
    \/ \E mode \in Modes : Render(mode) /\ ObserveRender /\ UNCHANGED <<episode, log>>

Spec == Init /\ [][Next]_vars

\* SpecDefault: each class with its default configuration, driven as the
\* scripts drive it (reset, then step until done, rendering in between),
\* with the joysticks at rest: zero control input on every step
DefaultTimeLimit(v) ==
    IF v = "B" THEN TimeLimitB ELSE IF v = "C" THEN TimeLimitC ELSE Unset

InitDefault == \E v \in Variants : Constructed(v, DefaultTimeLimit(v))

DriverReset == ret.op = "init" /\ Reset /\ ObserveReset /\ UNCHANGED <<episode, log>>

DriverStep ==
    /\ ret.op # "init" /\ ~terminated /\ ~failed
    /\ Step(ZeroAction) /\ ObserveStep(ZeroAction) /\ UNCHANGED <<episode, log>>

DriverRender == Render("human") /\ ObserveRender /\ UNCHANGED <<episode, log>>

NextDefault == DriverReset \/ DriverStep \/ DriverRender

SpecDefault == InitDefault /\ [][NextDefault]_vars

\* SpecReplay: one environment run twice over the same actions.  The episode
\* after the first reset() is driven by any caller and written down, call by
\* call; every later episode is handed the written actions again, so that a
\* fresh run and a run made after earlier episodes (ended, failed or cut
\* short by reset()) can be compared call by call.
ReplayReset ==
    /\ Reset /\ ObserveReset
    /\ episode' = IF episode = 0 THEN 1 ELSE 2
    /\ UNCHANGED log

\* step() before the first reset(): part of the history, not of a run
ReplayMisuse(action) ==
    /\ episode = 0 /\ calls < MaxSteps
    /\ Step(action) /\ ObserveStep(action)
    /\ UNCHANGED <<episode, log>>

\* a step() of the first run, with what it gave back and world.state after it
ReplayRecord(action) ==
    /\ episode = 1 /\ calls < MaxSteps
    /\ Step(action) /\ ObserveStep(action)
    /\ log' = Append(log, [action |-> action, ret |-> ret',
                            state |-> WorldState(cars', world'.dynamic_agents)])
    /\ UNCHANGED episode

\* a step() of a later run: the next written action
ReplayStep ==
    /\ episode = 2 /\ calls < Len(log)
    /\ Step(log[calls + 1].action) /\ ObserveStep(log[calls + 1].action)
    /\ UNCHANGED <<episode, log>>

\* render() between the calls of the history and of the first run
ReplayRender ==
    /\ episode < 2
    /\ Render("human") /\ ObserveRender
    /\ UNCHANGED <<episode, log>>

NextReplay ==
    \/ ReplayReset
    \/ \E action \in Actions : ReplayMisuse(action)
    \/ \E action \in Actions : ReplayRecord(action)
    \/ ReplayStep
    \/ ReplayRender

SpecReplay == Init /\ [][NextReplay]_vars

---------------------------------------------------------------------------
(* Properties *)

\* reset() has run: the cars exist
Initialized == "R" \in DOMAIN cars

\* the last call was a step() made after a reset()
Stepped == Initialized /\ ret.op = "step"

StepReturned == Stepped /\ ret.outcome = "returned"

\* the next state is that of one more step() call in the same episode
StepCall == calls' = calls + 1

\* the car is outside the vertical bounds of the world
OutsideVertical(c) == c.y <= 0 \/ c.y >= Height

\* the bounds condition the three step() methods test
BoundsTest == cars["R"].y >= Height \/ \E n \in CarNames : cars[n].y <= 0

\* car n overlaps some building of the variant
HitsBuilding(n) == \E i \in 1..Len(buildings) : CarCollidesBuilding(cars[n], buildings[i])

\* C1 (as claimed): in every variant, once a step() has returned done=true,
\* every later step() of the same episode that returns also returns done=true.
C1_DoneIsLatched ==
    [][(terminated /\ StepCall /\ ret'.outcome = "returned") => ret'.done]_vars

\* C1 (amended): in MergingEnv and MergingEnv2, once the step counter has
\* reached time_limit every later step() of the episode that returns, returns
\* done=true, and the counter goes down only by reset(), which zeroes it.
C1_LimitIsLatched ==
    /\ [][(variant # "A" /\ step_num # Unset /\ step_num >= time_limit
             /\ StepCall /\ ret'.outcome = "returned") => ret'.done]_vars
    /\ [][step_num' < step_num => (ret'.op = "reset" /\ step_num' = 0)]_vars

\* C1 witness: a step() past the time limit that returns done=true with no
\* collision and no car out of bounds
C1_Witness ==
    /\ StepReturned /\ variant = "B" /\ step_num > time_limit /\ ret.done
    /\ ~CarsCollide(cars) /\ ~BoundsTest
    /\ \A n \in CarNames : ~HitsBuilding(n)

\* C2 (as claimed): in every variant, an episode that has made as many step()
\* calls as the time limit has returned done=true (or, in MergingEnv2, raised).
\* TurningEnv is given the limit the other two were built with.
C2_EveryVariantEnds ==
    (Initialized /\ calls >= ShortLimit) => (terminated \/ (variant = "C" /\ failed))

\* C2 (amended): in MergingEnv and MergingEnv2, an episode that has made
\* time_limit step() calls since reset() has returned done=true or, in
\* MergingEnv2, raised the out-of-bounds error.
C2_MergingEnds ==
    (variant # "A" /\ Initialized /\ calls >= time_limit)
        => (terminated \/ (variant = "C" /\ failed))

\* C2 witness: the step that reaches the time limit is the first to end the
\* episode, and nothing but the limit ends it
C2_Witness ==
    /\ StepReturned /\ variant = "C" /\ calls = time_limit /\ ret.done
    /\ ~CarsCollide(cars) /\ ~failed
    /\ \A n \in CarNames : ~HitsBuilding(n)

\* C3 (as claimed): in TurningEnv and MergingEnv, a step() after whose tick
\* car "H" or car "R" is outside the vertical bounds returns done=true.
C3_EitherCarOutEnds ==
    (StepReturned /\ variant \in {"A", "B"}
        /\ \E n \in CarNames : OutsideVertical(cars[n])) => ret.done

\* C3 (amended): in TurningEnv and MergingEnv, a step() after whose tick car
\* "R" is at y >= height, or either car is at y <= 0, returns done=true.
C3_TestedBoundsEnd ==
    (StepReturned /\ variant \in {"A", "B"} /\ BoundsTest) => ret.done

\* C3 witness: car "H" below the world, nothing else ending the episode
C3_Witness ==
    /\ StepReturned /\ variant = "B" /\ cars["H"].y <= 0 /\ ret.done
    /\ ~CarsCollide(cars) /\ step_num < time_limit
    /\ \A n \in CarNames : ~HitsBuilding(n)

\* C4 (as claimed): in MergingEnv2, a step() after whose tick car "H" or car
\* "R" is outside the vertical bounds raises "Car went out of bounds!".
C4_EitherCarOutRaises ==
    (Stepped /\ variant = "C" /\ \E n \in CarNames : OutsideVertical(cars[n]))
        => (ret.outcome = "raised" /\ ret.error = "ValueError: Car went out of bounds!")

\* C4 (amended): in MergingEnv2, a step() after whose tick car "R" is at
\* y >= height, or either car is at y <= 0, raises "Car went out of bounds!"
\* and returns nothing, also when a collision or the time limit occurs in the
\* same step.
C4_TestedBoundsRaise ==
    (Stepped /\ variant = "C" /\ BoundsTest)
        => (ret.outcome = "raised" /\ ret.error = "ValueError: Car went out of bounds!")

\* C4 witness: the error raised in a step that also reaches the time limit
\* and has a car overlapping a building
C4_Witness ==
    /\ Stepped /\ variant = "C" /\ cars["H"].y <= 0 /\ ret.outcome = "raised"
    /\ step_num >= time_limit
    /\ \E n \in CarNames : HitsBuilding(n)

\* the render modes each class supports
SupportedModes(v) == IF v = "C" THEN {"human", "rgb_array"} ELSE {"human"}

\* C5 (as claimed): in every variant, render(mode) with a mode the variant
\* does not support raises an error that names the mode.
C5_UnsupportedModeRaises ==
    (ret.op = "render" /\ ret.mode \notin SupportedModes(variant))
        => (ret.outcome = "raised" /\ ret.error = UnsupportedMode(ret.mode))

\* the penalties step() subtracted from car n's reward in this state, in units
\* of 200: one if the cars overlap, one for each building the car overlaps
PenaltyCount(n) ==
    (IF CarsCollide(cars) THEN 1 ELSE 0) + Cardinality(HitBuildings(cars[n], buildings))

\* the reward step() would have returned for this post-tick state had the two
\* cars not overlapped
RewardWithoutCollision ==
    IF variant = "A" THEN RewardA(cars, buildings, FALSE)
    ELSE RewardB(cars, buildings,
                 DoneB(cars, buildings, step_num, time_limit, FALSE), FALSE)

\* C6 (as claimed): in TurningEnv and MergingEnv, a step() after whose tick
\* the cars overlap returns done=true and, for each agent, a reward exactly
\* 200 lower than the same post-tick state gives without the collision.
C6_Exactly200Lower ==
    (StepReturned /\ variant \in {"A", "B"} /\ CarsCollide(cars))
        => /\ ret.done
           /\ \A n \in CarNames : ret.reward[n] = RewardWithoutCollision[n] - Penalty

\* C6 (amended): such a step() returns done=true and, for each agent, the
\* shaping reward of the post-tick state less 200 for the collision of the
\* cars and 200 for each building the car overlaps, to which MergingEnv adds
\* the terminal bonus of the car's y.
C6_CollisionReward ==
    (StepReturned /\ variant \in {"A", "B"} /\ CarsCollide(cars))
        => /\ ret.done
           /\ \A n \in CarNames :
                ret.reward[n] =
                    IF variant = "A"
                    THEN GetCarRewardA(cars[n]) - Penalty * PenaltyCount(n)
                    ELSE GetCarRewardB(cars[n]) - Penalty * PenaltyCount(n)
                            + TerminalBonus(cars[n].y)

\* C6 witness: in MergingEnv the cars overlap, nothing else ends the episode
\* and the bonus is not zero
C6_Witness ==
    /\ StepReturned /\ variant = "B" /\ CarsCollide(cars) /\ ret.done
    /\ ~DoneB(cars, buildings, step_num, time_limit, FALSE)
    /\ TerminalBonus(cars["H"].y) > 0

\* C7: in MergingEnv, a step() that returns done=true has added the terminal
\* bonus of each car's post-tick y to that car's reward, whatever ended the
\* episode, and a step() that returns done=false has added none.
C7_TerminalBonus ==
    (StepReturned /\ variant = "B")
        => \A n \in CarNames :
              ret.reward[n] - (GetCarRewardB(cars[n]) - Penalty * PenaltyCount(n))
                  = IF ret.done THEN TerminalBonus(cars[n].y) ELSE 0

\* C7 witness: the time limit alone ends the episode and both bonuses are positive
C7_Witness ==
    /\ StepReturned /\ variant = "B" /\ ret.done /\ step_num = time_limit
    /\ ~CarsCollide(cars) /\ ~BoundsTest
    /\ \A n \in CarNames : ~HitsBuilding(n) /\ TerminalBonus(cars[n].y) > 0
    /\ \A n \in CarNames : ret.reward[n] > GetCarRewardB(cars[n])

\* C8: MergingEnv with its default configuration and zero control input:
\* every step() returns, with done=true exactly at step number time_limit.
C8_DoneAtTimeLimit ==
    (Stepped /\ variant = "B")
        => /\ ret.outcome = "returned"
           /\ calls = step_num
           /\ step_num <= TimeLimitB
           /\ ret.done <=> (step_num = TimeLimitB)

\* C8 witness: step number time_limit has returned done=true
C8_Witness ==
    /\ StepReturned /\ variant = "B" /\ time_limit = TimeLimitB
    /\ calls = TimeLimitB /\ ret.done

\* C9: in MergingEnv2, a step() after whose tick a car overlaps the other
\* car or a building, with no car out of bounds, returns done=true and gives
\* each agent the shaping reward of the post-tick state and nothing else.
C9_CollisionEndsWithoutPenalty ==
    (Stepped /\ variant = "C"
        /\ (CarsCollide(cars) \/ \E n \in CarNames : HitsBuilding(n))
        /\ \A n \in CarNames : ~OutsideVertical(cars[n]))
        => /\ ret.outcome = "returned"
           /\ ret.done
           /\ \A n \in CarNames : ret.reward[n] = GetCarRewardC(cars[n])

\* C9 witness: a building alone ends the episode, before the time limit
C9_Witness ==
    /\ StepReturned /\ variant = "C" /\ ret.done /\ step_num < time_limit
    /\ ~CarsCollide(cars) /\ HitsBuilding("R")
    /\ \A n \in CarNames : ~OutsideVertical(cars[n])

\* car n collides: with the other car or with a building
Colliding(n) == CarsCollide(cars) \/ HitsBuilding(n)

\* C10 (as claimed): in every variant, a step() after whose tick a car
\* collides returns normally with done=true and a penalty of at least 200
\* taken from the colliding agent's reward.
C10_CollisionNeverAnError ==
    (Stepped /\ \E n \in CarNames : Colliding(n))
        => /\ ret.outcome = "returned"
           /\ ret.done
           /\ \A n \in CarNames :
                Colliding(n) =>
                    ret.reward[n] <=
                        (IF variant = "A" THEN GetCarRewardA(cars[n])
                         ELSE IF variant = "B"
                              THEN GetCarRewardB(cars[n]) + TerminalBonus(cars[n].y)
                         ELSE GetCarRewardC(cars[n])) - Penalty

\* C10 (amended): in TurningEnv and MergingEnv such a step() returns normally
\* with done=true and 200 taken from a colliding agent's reward for each
\* collision it is in; in MergingEnv2 it takes nothing from the reward and
\* returns done=true unless the bounds test raises in the same step.
C10_CollisionOutcome ==
    (Stepped /\ \E n \in CarNames : Colliding(n))
        => IF variant = "C"
           THEN IF BoundsTest
                THEN ret.outcome = "raised"
                ELSE /\ ret.outcome = "returned" /\ ret.done
                     /\ \A n \in CarNames : ret.reward[n] = GetCarRewardC(cars[n])
           ELSE /\ ret.outcome = "returned" /\ ret.done
                /\ \A n \in CarNames :
                     Colliding(n) =>
                        /\ PenaltyCount(n) >= 1
                        /\ ret.reward[n] =
                             (IF variant = "A" THEN GetCarRewardA(cars[n])
                              ELSE GetCarRewardB(cars[n]) + TerminalBonus(cars[n].y))
                                - Penalty * PenaltyCount(n)

\* C10 witness: in TurningEnv a car overlaps a building and the other car
\* overlaps nothing
C10_Witness ==
    /\ StepReturned /\ variant = "A" /\ ret.done
    /\ ~CarsCollide(cars)
    /\ \E n \in CarNames : HitsBuilding(n)
    /\ \E n \in CarNames : ~HitsBuilding(n)

\* the buildings and the initial cars of a variant
FixedBuildings(v) ==
    IF v = "A" THEN BuildingsA ELSE IF v = "B" THEN BuildingsB ELSE BuildingsC

InitialCars(v) == IF v = "A" THEN CarsA ELSE IF v = "B" THEN CarsB ELSE CarsC

\* C11: after every reset(), whatever calls came before it, the world holds
\* exactly the variant's buildings and the two cars "H" then "R", both cars
\* have their initial poses, velocities and zero controls, and in MergingEnv
\* and MergingEnv2 the step counter is 0.
C11_ResetRestores ==
    ret.op = "reset"
        => /\ world.static_agents = FixedBuildings(variant)
           /\ world.dynamic_agents = <<"H", "R">>
           /\ buildings = FixedBuildings(variant)
           /\ cars = InitialCars(variant)
           /\ variant # "A" => step_num = 0

\* C11 witness: a reset() made after a step() of MergingEnv2 raised, the cars
\* having moved
C11_Witness ==
    /\ ret.op = "reset" /\ variant = "C" /\ reset_from = "failed"
    /\ world.dynamic_agents = <<"H", "R">> /\ cars = CarsC /\ step_num = 0

\* the cars with action[0:2] stored as the controls of "H" and action[2:4] as
\* the controls of "R"
ControlsOf(cs, action) ==
    [n \in CarNames |->
        IF n = "H" THEN SetControl(cs[n], action[1], action[2])
        ELSE SetControl(cs[n], action[3], action[4])]

\* C12: in every variant and every episode, step(action) stores action[0:2]
\* as the controls of car "H" and action[2:4] as the controls of car "R"
\* before the tick (the tick integrates the cars with exactly these controls),
\* and gives a control pair to no other agent.
C12_ControlsAssigned ==
    [][(Initialized /\ StepCall)
          => /\ world.dynamic_agents = <<"H", "R">>
             /\ DOMAIN cars' = CarNames
             /\ cars' = [n \in CarNames |->
                            TickCar(ControlsOf(cars, given')[n], DtDen(variant))]
             /\ cars'["H"].inputSteering = given'[1]
             /\ cars'["H"].inputAcceleration = given'[2]
             /\ cars'["R"].inputSteering = given'[3]
             /\ cars'["R"].inputAcceleration = given'[4]]_vars

\* C12 witness: a second step() of an episode has given car "R" alone a
\* non-zero acceleration, car "H" keeping zero controls
C12_Witness ==
    /\ Stepped /\ calls >= 2 /\ given[4] # 0
    /\ cars["R"].inputAcceleration = given[4]
    /\ cars["H"].inputAcceleration = 0 /\ cars["H"].inputSteering = 0
    /\ cars["R"].vy # cars["H"].vy

\* C13: in every variant, a run of reset() and N step() calls made after
\* earlier episodes returns, call by call, the state vector, the rewards and
\* the done flag (or the error) that the same actions gave in the run made
\* after the environment's first reset().
C13_SameRunSameResults ==
    (episode = 2 /\ ret.op = "step")
        => /\ ret = log[calls].ret
           /\ WorldState(cars, world.dynamic_agents) = log[calls].state

\* C13 witness: MergingEnv has been run again to the end of a written episode
\* of at least three steps whose last step returned done=true, the cars
\* having moved apart
C13_Witness ==
    /\ episode = 2 /\ ret.op = "step" /\ variant = "B"
    /\ calls = Len(log) /\ calls >= 3
    /\ ret.outcome = "returned" /\ ret.done /\ ret = log[calls].ret
    /\ cars["H"].y # cars["R"].y

\* C14: in MergingEnv and MergingEnv2, after a reset() the step counter
\* equals the number of step() calls and the number of World.tick() calls
\* made since that reset(): every step(), also one that returns done=true
\* and one that raises the out-of-bounds error, adds exactly 1 to the counter
\* and ticks the world exactly once, and render() changes neither.
C14_CounterCountsSteps ==
    /\ []((variant \in {"B", "C"} /\ Initialized)
            => (step_num = calls /\ step_num = ticks))
    /\ [][(variant \in {"B", "C"} /\ Initialized /\ StepCall)
            => (step_num' = step_num + 1 /\ ticks' = ticks + 1)]_vars
    /\ [][ret'.op = "render"
            => (step_num' = step_num /\ ticks' = ticks /\ calls' = calls)]_vars

\* C14 witness: in MergingEnv2 a step() made after the episode had ended has
\* raised the out-of-bounds error, and the counter has counted it
C14_Witness ==
    /\ Stepped /\ variant = "C" /\ ret.outcome = "raised" /\ terminated
    /\ calls >= 2 /\ step_num = calls /\ ticks = calls

\* what the returned reward of agent n would be for this post-tick state and
\* this done flag had no car overlapped a building
RewardWithoutBuildings(n) ==
    IF variant = "A"
    THEN GetCarRewardA(cars[n]) - (IF CarsCollide(cars) THEN Penalty ELSE 0)
    ELSE GetCarRewardB(cars[n]) - (IF CarsCollide(cars) THEN Penalty ELSE 0)
            + (IF ret.done THEN TerminalBonus(cars[n].y) ELSE 0)

\* the number of (car, building) pairs that overlap
BuildingHits ==
    Cardinality(HitBuildings(cars["H"], buildings))
        + Cardinality(HitBuildings(cars["R"], buildings))

\* C15 (as claimed): in TurningEnv and MergingEnv, a step() after whose tick
\* one car overlaps one building returns done=true and a reward that is 200
\* lower for both agents "H" and "R".
C15_BothAgentsPenalised ==
    (StepReturned /\ variant \in {"A", "B"} /\ BuildingHits = 1)
        => /\ ret.done
           /\ \A n \in CarNames : ret.reward[n] = RewardWithoutBuildings(n) - Penalty

\* C15 (amended): in TurningEnv and MergingEnv, a step() after whose tick a
\* car overlaps a building returns done=true, and each agent's reward is
\* lower by 200 for each building its own car overlaps: the agent whose car
\* overlaps no building loses nothing to the other car's collision.
C15_CollidingCarPenalised ==
    (StepReturned /\ variant \in {"A", "B"} /\ BuildingHits >= 1)
        => /\ ret.done
           /\ \A n \in CarNames :
                RewardWithoutBuildings(n) - ret.reward[n]
                    = Penalty * Cardinality(HitBuildings(cars[n], buildings))

\* C15 witness: in MergingEnv car "R" alone overlaps a building, the cars
\* apart; "R" has lost 200 and "H" nothing
C15_Witness ==
    /\ StepReturned /\ variant = "B" /\ ret.done /\ ~CarsCollide(cars)
    /\ HitsBuilding("R") /\ ~HitsBuilding("H")
    /\ ret.reward["R"] = RewardWithoutBuildings("R") - Penalty
    /\ ret.reward["H"] = RewardWithoutBuildings("H")

\* C16 (as claimed): in every variant, a step() made before the first
\* reset() returns no result: it raises, and the world has not ticked.
C16_FailsBeforeTick ==
    (~Initialized /\ ret.op = "step") => (ret.outcome = "raised" /\ ticks = 0)

====
